---------------------------- MODULE Spec2Model ----------------------------
(***************************************************************************)
(* A model of android::EventHub (frameworks/base/libs/ui/EventHub.cpp):    *)
(* the identity table, the poll set, the pending lists, device discovery   *)
(* (open_device), close (close_device), the watcher drain (read_notify),   *)
(* the directory scan (scan_dir) and the event pump (getEvent).            *)
(*                                                                         *)
(* C arrays keep their 0-based indices: an array is a TLA+ sequence and    *)
(* At(a, i) reads element i.  Pointers to device_t are handles into        *)
(* `heap` (NULL is 0); a deleted record stays in `heap` marked freed for  *)
(* as long as a pointer the pump will follow leads to it.                  *)
(*                                                                         *)
(* The build modelled is the one with HAVE_INOTIFY and EV_SW and without   *)
(* HAVE_TSLIB.  Allocations are taken to succeed.                          *)
(***************************************************************************)
EXTENDS Integers, Sequences, FiniteSets, TLC

(***************************************************************************)
(* Bounds of the model.                                                    *)
(***************************************************************************)
\* open_device calls of scan_dir and read_notify, over a whole behaviour
MaxOpens == 2
\* the same, for the behaviours of SpecDeep
MaxDeepOpens == 3
\* runs of dropped candidates (DroppedRun), over a whole behaviour
MaxRuns == 1
\* open_device calls over a whole behaviour of SpecSw
MaxSwOpens == 2
\* open_device calls over a whole behaviour of SpecExcl
MaxExclOpens == 2
\* addExcludedDevice calls over a whole behaviour
MaxExcluded == 2
\* open_device calls over a whole behaviour of SpecFail
MaxFailOpens == 2
\* open_device calls over a whole behaviour of SpecLive
MaxLiveOpens == 2
\* open_device calls over a whole behaviour of SpecRace
MaxRaceOpens == 1
\* calls of the query thread over a whole behaviour
MaxQueries == 2

(***************************************************************************)
(* Program constants.                                                      *)
(***************************************************************************)
NULL == 0
ID_MASK == 65535
SEQ_MASK == 2147418112
SEQ_SHIFT == 16
\* linux/input.h, as used by the source
BTN_MISC == 256
BTN_MOUSE == 272
BTN_LEFT == 272
BTN_RIGHT == 273
BTN_TOUCH == 330
REL_X == 0
REL_Y == 1
ABS_X == 0
ABS_Y == 1
ABS_MT_TOUCH_MAJOR == 48
ABS_MT_POSITION_X == 53
ABS_MT_POSITION_Y == 54
EV_KEY == 1
EV_ABS == 3
EV_SW == 5
SW_MAX == 15
SW_HEADPHONE_INSERT == 2
\* ui/EventHub.h: synthetic event types
DEVICE_ADDED == 268435456
DEVICE_REMOVED == 536870912
\* ui/KeycodeLabels.h
kKeyCodeQ == 45
kKeyCodeDpadUp == 19
kKeyCodeDpadDown == 20
kKeyCodeDpadLeft == 21
kKeyCodeDpadRight == 22
kKeyCodeDpadCenter == 23

(***************************************************************************)
(* Integer helpers: C's & and | on non-negative ints, bit by bit.          *)
(***************************************************************************)
RECURSIVE BitAnd(_, _)
BitAnd(a, b) ==
    IF a = 0 \/ b = 0 THEN 0
    ELSE IF b = ID_MASK THEN a % (ID_MASK + 1)
    ELSE (a % 2) * (b % 2) + 2 * BitAnd(a \div 2, b \div 2)

RECURSIVE BitOr(_, _)
BitOr(a, b) ==
    IF a = 0 THEN b
    ELSE IF b = 0 THEN a
    ELSE (IF a % 2 = 1 \/ b % 2 = 1 THEN 1 ELSE 0) + 2 * BitOr(a \div 2, b \div 2)

Pow2(n) == 2 ^ n

\* a[i] for a C array held as a sequence
At(a, i) == a[i + 1]

\* a with a[i] := v, for i < Len(a)
Put(a, i, v) == [a EXCEPT ![i + 1] = v]

\* realloc(a, n elements): the first min(old, n) elements are kept, the rest
\* are new storage (held as `fill`, never read before it is written)
Realloc(a, n, fill) == [k \in 1..n |-> IF k <= Len(a) THEN a[k] ELSE fill]

\* memmove(a + i, a + i + 1, count elements): the last element stays in place
MemmoveDown(a, i, count) ==
    [k \in 1..Len(a) |-> IF k - 1 >= i /\ k - 1 < i + count THEN a[k + 1] ELSE a[k]]

Min(S) == CHOOSE x \in S : \A y \in S : x <= y


(***************************************************************************)
(* The composite identifier: slot in the low 16 bits, the slot's sequence  *)
(* counter in bits 16..30.  mDevicesById[slot].seq holds the counter       *)
(* already shifted, as the source does.                                    *)
(***************************************************************************)
id_to_index(id) == BitAnd(id, ID_MASK) + 1

\* open_device, lines 659-662.  Both operands of the addition have their low
\* SEQ_SHIFT bits clear, so it is carried out on the high halves (TLC's
\* integers are 32-bit signed and 0x7fff0000 + 0x10000 does not fit).
\* a counter that wraps to 0: the masked sum without lines 660-661
SeqWrapToZero(seq) ==
    BitAnd((seq \div Pow2(SEQ_SHIFT)) + 1, SEQ_MASK \div Pow2(SEQ_SHIFT)) * Pow2(SEQ_SHIFT)

NextSeq(seq) ==
    LET sum == (seq \div Pow2(SEQ_SHIFT)) + 1
        s   == BitAnd(sum, SEQ_MASK \div Pow2(SEQ_SHIFT)) * Pow2(SEQ_SHIFT)
    IN  IF s = 0 THEN Pow2(SEQ_SHIFT) ELSE s

\* NextSeq applied n times: n consecutive open_device calls on one slot
RECURSIVE NextSeqTimes(_, _)
NextSeqTimes(seq, n) ==
    IF seq < 0 \/ n = 0 THEN seq
    ELSE IF n = 1 THEN NextSeq(seq)
    ELSE NextSeqTimes(NextSeqTimes(seq, n \div 2), n - (n \div 2))

\* the length of a run of dropped candidates: one short of the period of the
\* sequence counter
RunLength == (SEQ_MASK \div Pow2(SEQ_SHIFT)) - 1

\* the counter after a run, for the counters a slot can hold before it
SeqAfterRun ==
    [s \in {k * Pow2(SEQ_SHIFT) : k \in 0..MaxDeepOpens} |->
        NextSeqTimes(s, RunLength)]

(***************************************************************************)
(* The environment's inputs.                                               *)
(*                                                                         *)
(* A candidate is a device node together with what the kernel and the      *)
(* filesystem answer while open_device probes it: whether open() and the   *)
(* version/id ioctls succeed, the name, the capability bit sets (a set of  *)
(* bit numbers stands for the bitmask), whether <name>.kl is readable, and *)
(* the table KeyLayoutMap::load builds from the file chosen.               *)
(***************************************************************************)
Paths == {"event0", "event1"}

\* scancode -> (keycode, flags)
QwertyKl == (16 :> [keycode |-> kKeyCodeQ, flags |-> 0])
KeypadKl == (16 :> [keycode |-> kKeyCodeQ, flags |-> 1]) @@ (30 :> [keycode |-> 29, flags |-> 0])
EmptyKl == << >>

Fixture(name, keys, rel, abs, sw, ownKl, layout) ==
    [name |-> name, exists |-> TRUE, version |-> TRUE, id |-> TRUE,
     keyOk |-> TRUE, keys |-> keys, relOk |-> TRUE, rel |-> rel,
     abs |-> abs, swOk |-> TRUE, sw |-> sw, ownKl |-> ownKl, layout |-> layout]

\* a keyboard without a layout file of its own
GpioKeys == Fixture("gpio-keys", {16}, {}, {}, {}, FALSE, QwertyKl)
\* the built-in keypad, with its own layout file
OmapKeypad == Fixture("omap-keypad", {16, 30}, {}, {}, {}, TRUE, KeypadKl)
\* a multi-touch screen
TouchMT == Fixture("touchscreen", {}, {}, {ABS_MT_TOUCH_MAJOR, ABS_MT_POSITION_X, ABS_MT_POSITION_Y}, {}, FALSE, EmptyKl)
\* buttons at BTN_MISC only: no class applies
Buttons == Fixture("buttons", {BTN_MISC}, {}, {}, {}, FALSE, EmptyKl)

Fixtures == {GpioKeys, OmapKeypad, TouchMT, Buttons}

\* a headset jack: SW_HEADPHONE_INSERT and SW_JACK_PHYSICAL_INSERT (7)
Jack == Fixture("h2w headset", {}, {}, {}, {SW_HEADPHONE_INSERT, 7}, FALSE, EmptyKl)

\* a keyboard on a system where neither <name>.kl nor qwerty.kl can be read
BareKeys == Fixture("bare-keys", {16}, {}, {}, {}, FALSE, EmptyKl)

\* the candidates of the behaviours with excluded names
ExclFixtures == {GpioKeys, BareKeys}

\* a node whose driver does not answer EVIOCGVERSION
NoVersion == [Fixture("no-version", {16}, {}, {}, {}, FALSE, QwertyKl) EXCEPT !.version = FALSE]

\* the candidates of the behaviours with failing probes
FailFixtures == {GpioKeys, NoVersion, Buttons}

\* the candidates of the behaviours with devices that stay readable
LiveFixtures == {GpioKeys, TouchMT}

\* the candidates of the behaviours with a query thread
RaceFixtures == {GpioKeys, Jack}

\* a lid switch (SW_LID, 0) and nothing else: no class applies
Lid == Fixture("lid", {}, {}, {}, {0}, FALSE, EmptyKl)

\* the candidates of the behaviours with switches
SwFixtures == {Jack, Lid, TouchMT, Buttons}

\* strstr(name, "-keypad") over the names of the fixtures
HasKeypad(name) == name \in {"omap-keypad"}

\* struct input_event as read from a device: type, code, value
RawEvents == {[type |-> EV_KEY, code |-> 16, value |-> 1],
              [type |-> EV_ABS, code |-> ABS_X, value |-> 7]}

(***************************************************************************)
(* The state.                                                              *)
(***************************************************************************)
VARIABLES
    mOpened,             \* platform input opened (first getEvent call done)
    mHaveFirstKeyboard,
    mFirstKeyboardId,
    mDevicesById,        \* identity table: sequence of [device, seq]
    mOpeningDevices,     \* head of the opening list
    mClosingDevices,     \* head of the closing list
    mDevices,            \* device_t* per poll-set index (allocated length)
    mFDs,                \* descriptor per poll-set index (allocated length)
    mFDCount,
    mSwitches,           \* switch code -> device id or 0
    mExcludedDevices,    \* names
    heap,                \* handle -> device_t (and what the model records of it)
    openFds,             \* descriptors the process holds open
    wakeLock,            \* the "KeyEvents" wake lock is held
    pc,                  \* where the pump thread is
    revents,             \* poll-set indices poll() reported readable
    out,                 \* getEvent's out-parameters
    \* history, not program state
    gen,                 \* per slot: how many times its seq has advanced
    closedIds,           \* the ids of the records closed so far, with their gen
    announced,           \* reported ids with ADDED returned and no REMOVED since
    uaf,                 \* the pump has read a deleted record
    nOpens,
    nRuns,
    \* the callers on other threads
    mLock,               \* the registry mutex: "free", or "query" while a query holds it
    q                    \* where the query thread is, and what it has read

hub == <<mOpened, mHaveFirstKeyboard, mFirstKeyboardId, mDevicesById,
         mOpeningDevices, mClosingDevices, mDevices, mFDs, mFDCount,
         mSwitches, mExcludedDevices, heap, openFds, gen, closedIds, nOpens>>

vars == <<hub, wakeLock, pc, revents, out, announced, uaf, nRuns, mLock, q>>

mNumDevicesById == Len(mDevicesById)

\* lines 310-316
NoEvent == [deviceId |-> 0, type |-> 0, scancode |-> 0, keycode |-> 0,
            flags |-> 0, value |-> 0, obj |-> NULL]

\* a query thread that is in no call and has made none
QueryIdle == [pc |-> "idle", arg |-> 0, n |-> 0, dev |-> NULL, result |-> 0,
              unlocked |-> FALSE, fault |-> FALSE, calls |-> 0]

\* the state the constructor leaves, lines 100-113
Init ==
    /\ mOpened = FALSE
    /\ mHaveFirstKeyboard = FALSE
    /\ mFirstKeyboardId = 0
    /\ mDevicesById = << >>
    /\ mOpeningDevices = NULL
    /\ mClosingDevices = NULL
    /\ mDevices = << >>
    /\ mFDs = << >>
    /\ mFDCount = 0
    /\ mSwitches = [i \in 0..SW_MAX |-> 0]
    /\ mExcludedDevices = << >>
    /\ heap = << >>
    /\ openFds = {}
    /\ wakeLock = TRUE
    /\ pc = "idle"
    /\ revents = {}
    /\ out = NoEvent
    /\ gen = << >>
    /\ closedIds = {}
    /\ announced = {}
    /\ uaf = FALSE
    /\ nOpens = 0
    /\ nRuns = 0
    /\ mLock = "free"
    /\ q = QueryIdle

(***************************************************************************)
(* Lookup, lines 293-304.                                                  *)
(***************************************************************************)
\* a lookup by slot alone, without the comparison of line 300
getDeviceBySlot(deviceId) ==
    LET did == IF deviceId = 0 THEN mFirstKeyboardId ELSE deviceId
        id  == BitAnd(did, ID_MASK)
    IN  IF id >= mNumDevicesById \/ id < 0 THEN NULL
        ELSE At(mDevicesById, id).device

\* the handle of the record `deviceId` names, or NULL
getDevice(deviceId) ==
    LET did == IF deviceId = 0 THEN mFirstKeyboardId ELSE deviceId
        id  == BitAnd(did, ID_MASK)
    IN  IF id >= mNumDevicesById \/ id < 0 THEN NULL
        ELSE LET dev == At(mDevicesById, id).device
             IN  IF dev = NULL THEN NULL
                 ELSE IF heap[dev].id = did THEN dev
                 ELSE NULL

\* KeyLayoutMap::map: whether the table has an entry for the scancode
LayoutHas(layout, scancode) == scancode \in DOMAIN layout

\* KeyLayoutMap::findScancodes: the scancodes mapped to a keycode
findScancodes(layout, keycode) == {sc \in DOMAIN layout : layout[sc].keycode = keycode}

\* hasKeycode, lines 873-890, on the fields of a record
hasKeycode(hasBitmask, keyBitmask, layoutMap, keycode) ==
    /\ hasBitmask
    /\ \E sc \in findScancodes(layoutMap, keycode) : sc \in keyBitmask

\* the descriptor open() returns: the lowest one the process does not hold
NewFd == Min({k \in 0..Cardinality(openFds) : k \notin openFds})

\* the address `new device_t` returns: storage not in use, possibly storage
\* that a deleted record occupied
NewHandle == Min({k \in 1..(Cardinality(DOMAIN heap) + 1) : k \notin DOMAIN heap})

(***************************************************************************)
(* The accessors, lines 129-285.  Each runs under mLock, so it sees the    *)
(* state between two steps of the pump.  `io` is what the ioctl the        *)
(* accessor issues returns: 0, or -1 when the kernel refuses it.           *)
(***************************************************************************)
NAME_NOT_FOUND == 0 - 2

NO_ERROR == 0

IoctlResults == {0, 0 - 1}

\* lines 129-135; the empty string is what String8() holds
getDeviceName(deviceId) ==
    LET device == getDevice(deviceId)
    IN  IF device = NULL THEN "" ELSE heap[device].name

\* lines 137-143; the empty set is the class mask 0
getDeviceClasses(deviceId) ==
    LET device == getDevice(deviceId)
    IN  IF device = NULL THEN {} ELSE heap[device].classes

\* the poll-set index whose descriptor lines 154, 189, 213 and 238 hand to
\* ioctl: mFDs[id_to_index(device->id)].fd
QueryIndex(device) == id_to_index(heap[device].id)

\* lines 145-164
getAbsoluteInfo(deviceId, io) ==
    LET device == getDevice(deviceId)
    IN  IF device = NULL THEN 0 - 1
        ELSE IF io # 0 THEN 0 - 1
        ELSE 0

\* lines 179-197, for a switch code in 0..SW_MAX; `bit` is the switch's bit
\* in the bitmask the ioctl filled
getSwitchState(deviceId, io, bit) ==
    LET device == getDevice(deviceId)
    IN  IF device = NULL THEN 0 - 1
        ELSE IF io >= 0 THEN (IF bit THEN 1 ELSE 0)
        ELSE 0 - 1

\* getSwitchState(int sw), lines 166-177: the state of a switch, asked of the
\* device that holds its cell
getSwitchStateBySwitch(sw, io, bit) ==
    IF sw >= 0 /\ sw <= SW_MAX /\ mSwitches[sw] # 0
    THEN getSwitchState(mSwitches[sw], io, bit)
    ELSE 0 - 1

\* lines 204-220, for a key code in 0..KEY_MAX
getScancodeState(deviceId, io, bit) ==
    LET device == getDevice(deviceId)
    IN  IF device = NULL THEN 0 - 1
        ELSE IF io >= 0 THEN (IF bit THEN 1 ELSE 0)
        ELSE 0 - 1

\* lines 227-256; `down` is the set of scancodes whose bit the ioctl set
getKeycodeState(deviceId, code, io, down) ==
    LET device == getDevice(deviceId)
    IN  IF device = NULL THEN 0 - 1
        ELSE IF io >= 0 /\ findScancodes(heap[device].layoutMap, code) \cap down # {}
        THEN 1
        ELSE 0

\* lines 258-285
scancodeToKeycode(deviceId, scancode) ==
    LET device == getDevice(deviceId)
        first  == getDevice(mFirstKeyboardId)
        hit(d) == [status |-> NO_ERROR,
                   keycode |-> heap[d].layoutMap[scancode].keycode,
                   flags |-> heap[d].layoutMap[scancode].flags]
    IN  IF device # NULL /\ LayoutHas(heap[device].layoutMap, scancode)
        THEN hit(device)
        ELSE IF mHaveFirstKeyboard /\ first # NULL
                /\ LayoutHas(heap[first].layoutMap, scancode)
        THEN hit(first)
        ELSE [status |-> NAME_NOT_FOUND, keycode |-> 0, flags |-> 0]

(***************************************************************************)
(* open_device, lines 580-871, as one step under mLock.  `n` is 1 for one  *)
(* call; for n > 1 it is n consecutive calls for candidates that answer    *)
(* alike and are all dropped at line 851, which differ from one such call  *)
(* only in how far the slot's sequence counter has advanced.               *)
(***************************************************************************)
\* the capability part: the classes lines 702-789 give, before the keyboard part
BaseClasses(fx, headset) ==
    LET key_bitmask == IF fx.keyOk THEN fx.keys ELSE {}
        abs_bitmask == fx.abs
        keyboard == fx.keyOk /\ \E k \in fx.keys : k \div 8 < (BTN_MISC + 7) \div 8
        pointer  == BTN_MOUSE \in key_bitmask /\ fx.relOk
                    /\ REL_X \in fx.rel /\ REL_Y \in fx.rel
        mouse    == pointer /\ BTN_LEFT \in key_bitmask /\ BTN_RIGHT \in key_bitmask
        multi    == /\ ABS_MT_TOUCH_MAJOR \in abs_bitmask
                    /\ ABS_MT_POSITION_X \in abs_bitmask
                    /\ ABS_MT_POSITION_Y \in abs_bitmask
        single   == /\ ~multi
                    /\ BTN_TOUCH \in key_bitmask
                    /\ ABS_X \in abs_bitmask /\ ABS_Y \in abs_bitmask
    IN  (IF keyboard THEN {"KEYBOARD"} ELSE {})
        \cup (IF mouse THEN {"MOUSE"} ELSE {})
        \cup (IF pointer /\ ~mouse THEN {"TRACKBALL"} ELSE {})
        \cup (IF multi THEN {"TOUCHSCREEN", "TOUCHSCREEN_MT"} ELSE {})
        \cup (IF single THEN {"TOUCHSCREEN"} ELSE {})
        \cup (IF headset THEN {"HEADSET"} ELSE {})

\* the keyboard part, lines 832-844
KeyboardClasses(fx) ==
    (IF hasKeycode(TRUE, fx.keys, fx.layout, kKeyCodeQ) THEN {"ALPHAKEY"} ELSE {})
    \cup (IF \A kc \in {kKeyCodeDpadUp, kKeyCodeDpadDown, kKeyCodeDpadLeft,
                        kKeyCodeDpadRight, kKeyCodeDpadCenter} :
                hasKeycode(TRUE, fx.keys, fx.layout, kc)
          THEN {"DPAD"} ELSE {})

\* lines 771-785: each switch the candidate reports and nobody holds is claimed
ClaimSwitches(fx, id) ==
    [i \in 0..SW_MAX |->
        IF fx.swOk /\ i < SW_MAX /\ i \in fx.sw /\ mSwitches[i] = 0
        THEN id ELSE mSwitches[i]]

\* a search that never finds a free slot
GrowSlot == mNumDevicesById

\* lines 639-645: the lowest slot whose device is NULL, or the table's length
FreeSlot ==
    LET free == {i \in 0..(mNumDevicesById - 1) : At(mDevicesById, i).device = NULL}
    IN  IF free = {} THEN mNumDevicesById ELSE Min(free)

\* a load that comes up with the qwerty table when no file could be read
LoadedLayoutDefault(fx, kbd) ==
    IF kbd THEN (IF fx.layout = EmptyKl THEN QwertyKl ELSE fx.layout) ELSE EmptyKl

\* lines 92 and 804-813: the map is created empty with the record, and a
\* keyboard's is filled by load(), whose result is not looked at
LoadedLayout(fx, kbd) == IF kbd THEN fx.layout ELSE EmptyKl

\* a test that looks at the newest entry of the list only
IsExcludedLast(list, name) == list # << >> /\ list[Len(list)] = name

\* lines 619-628: strcmp against every entry of the excluded list
IsExcluded(list, name) == \E k \in 1..Len(list) : list[k] = name

\* lines 816-827: whether this keyboard is made the built-in keyboard
IsBuiltIn(fx, kbd) == kbd /\ ~mHaveFirstKeyboard /\ fx.ownKl /\ HasKeypad(fx.name)

\* a designation that follows every registered device, keyboard or not
FirstKeyboardAlways(fx, kbd, id) == id

\* lines 816-827: the first keyboard id after a candidate with this id
FirstKeyboardAfter(fx, kbd, id) ==
    IF IsBuiltIn(fx, kbd) THEN id
    ELSE IF kbd /\ mFirstKeyboardId = 0 THEN id
    ELSE mFirstKeyboardId

OpenDeviceN(path, fx, n) ==
    \* line 594: AutoMutex _l(mLock)
    /\ mLock = "free"
    /\ LET fd == NewFd IN
       IF ~fx.exists THEN
           \* line 597: open() failed
           /\ n = 1
           /\ UNCHANGED hub
       ELSE IF ~fx.version \/ ~fx.id THEN
           \* lines 602-609: return without close(fd)
           /\ n = 1
           /\ openFds' = openFds \cup {fd}
           /\ nOpens' = nOpens + 1
           /\ UNCHANGED <<mOpened, mHaveFirstKeyboard, mFirstKeyboardId, mDevicesById,
                          mOpeningDevices, mClosingDevices, mDevices, mFDs, mFDCount,
                          mSwitches, mExcludedDevices, heap, gen, closedIds>>
       ELSE IF IsExcluded(mExcludedDevices, fx.name) THEN
           \* lines 619-628: close(fd) and return
           /\ n = 1
           /\ nOpens' = nOpens + 1
           /\ UNCHANGED <<mOpened, mHaveFirstKeyboard, mFirstKeyboardId, mDevicesById,
                          mOpeningDevices, mClosingDevices, mDevices, mFDs, mFDCount,
                          mSwitches, mExcludedDevices, heap, openFds, gen, closedIds>>
       ELSE
           LET devid  == FreeSlot
               \* lines 646-657
               table1 == IF devid >= mNumDevicesById
                         THEN Append(mDevicesById, [device |-> NULL, seq |-> 0])
                         ELSE mDevicesById
               gen1   == IF devid >= mNumDevicesById THEN Append(gen, 0) ELSE gen
               \* lines 659-662
               seq0   == At(table1, devid).seq
               seq1   == IF n = 1 THEN NextSeq(seq0) ELSE SeqAfterRun[seq0]
               table2 == Put(table1, devid, [device |-> NULL, seq |-> seq1])
               \* lines 664-671
               fds1   == Realloc(mFDs, mFDCount + 1, 0)
               devs1  == Realloc(mDevices, mFDCount + 1, NULL)
               \* line 687
               id     == BitOr(devid, seq1)
               \* line 693
               fds2   == Put(fds1, mFDCount, fd)
               sw1    == ClaimSwitches(fx, id)
               base   == BaseClasses(fx, sw1[SW_HEADPHONE_INSERT] # 0)
               kbd    == "KEYBOARD" \in base
               classes == IF kbd THEN base \cup KeyboardClasses(fx) ELSE base
               h      == NewHandle
               device == [id |-> id, path |-> path, name |-> fx.name, classes |-> classes,
                          hasKeyBitmask |-> kbd,
                          keyBitmask |-> IF kbd THEN fx.keys ELSE {},
                          layoutMap |-> LoadedLayout(fx, kbd),
                          next |-> mOpeningDevices, freed |-> FALSE,
                          fd |-> fd, closed |-> FALSE, added |-> 0, removed |-> 0,
                          genAt |-> At(gen1, devid) + n]
           IN  /\ n > 1 => n = RunLength /\ seq0 \in DOMAIN SeqAfterRun
               /\ nOpens' = IF n = 1 THEN nOpens + 1 ELSE nOpens
               /\ gen' = Put(gen1, devid, At(gen1, devid) + n)
               /\ mFDs' = fds2
               /\ mSwitches' = sw1
               /\ UNCHANGED <<mOpened, mClosingDevices, mExcludedDevices, closedIds>>
               /\ IF classes = {} THEN
                      \* lines 851-856
                      /\ n > 1 => sw1 = mSwitches
                      /\ mDevicesById' = table2
                      /\ mDevices' = devs1
                      /\ UNCHANGED <<mHaveFirstKeyboard, mFirstKeyboardId, mOpeningDevices,
                                     mFDCount, heap, openFds>>
                  ELSE
                      /\ n = 1
                      \* lines 816-827
                      /\ mHaveFirstKeyboard' = (mHaveFirstKeyboard \/ IsBuiltIn(fx, kbd))
                      /\ mFirstKeyboardId' = FirstKeyboardAfter(fx, kbd, id)
                      \* lines 864-869
                      /\ heap' = (h :> device) @@ heap
                      /\ mDevicesById' = Put(table2, devid, [device |-> h, seq |-> seq1])
                      /\ mOpeningDevices' = h
                      /\ mDevices' = Put(devs1, mFDCount, h)
                      /\ mFDCount' = mFDCount + 1
                      /\ openFds' = openFds \cup {fd}

open_device(path, fx) == OpenDeviceN(path, fx, 1)

(***************************************************************************)
(* close_device, lines 892-943, as one step under mLock.                   *)
(***************************************************************************)
\* the poll-set indices whose record has this path (line 898)
Matching(path) == {i \in 1..(mFDCount - 1) : heap[At(mDevices, i)].path = path}

\* a close that leaves the device array as it is
KeepDevices(i) == mDevices

\* lines 913-914: the two arrays after the entry at index i is squeezed out
CompactDevices(i) == MemmoveDown(mDevices, i, mFDCount - i - 1)

CompactFDs(i) == MemmoveDown(mFDs, i, mFDCount - i - 1)

close_device(path) ==
    \* line 894: AutoMutex _l(mLock)
    /\ mLock = "free"
    /\ IF Matching(path) = {} THEN
           \* lines 941-942
           UNCHANGED hub
       ELSE
           LET i      == Min(Matching(path))
               device == At(mDevices, i)
               id     == heap[device].id
               index  == BitAnd(id, ID_MASK)
           IN  \* lines 907-908
               /\ mDevicesById' = Put(mDevicesById, index,
                                      [device |-> NULL, seq |-> At(mDevicesById, index).seq])
               \* lines 911-915
               /\ openFds' = openFds \ {At(mFDs, i)}
               /\ mDevices' = CompactDevices(i)
               /\ mFDs' = CompactFDs(i)
               /\ mFDCount' = mFDCount - 1
               \* lines 918-922
               /\ mSwitches' = [j \in 0..SW_MAX |->
                                   IF j < EV_SW /\ mSwitches[j] = id THEN 0 ELSE mSwitches[j]]
               \* lines 925-926
               /\ heap' = [heap EXCEPT ![device].next = mClosingDevices,
                                       ![device].closed = TRUE]
               /\ mClosingDevices' = device
               \* lines 928-933
               /\ mFirstKeyboardId' = IF id = mFirstKeyboardId THEN 0 ELSE mFirstKeyboardId
               /\ closedIds' = closedIds \cup {[id |-> id, genAt |-> heap[device].genAt,
                                                first |-> id = mFirstKeyboardId]}
               /\ UNCHANGED <<mOpened, mHaveFirstKeyboard, mOpeningDevices,
                              mExcludedDevices, gen, nOpens>>

(***************************************************************************)
(* The pump thread: getEvent, lines 306-492, with openPlatformInput,       *)
(* scan_dir and read_notify.  pc is "idle" outside getEvent, "scandir"     *)
(* inside scan_dir, "loop" at the top of the while loop, "poll" inside     *)
(* poll(), "scan" in the for loop over the user descriptors, "notify"      *)
(* inside read_notify, and "crashed" when the process has died.            *)
(***************************************************************************)
\* lines 347-348, 358-359, 422-423
Reported(id) == IF id = mFirstKeyboardId THEN 0 ELSE id

\* the paths of the records in the poll set
OpenPaths == {heap[At(mDevices, i)].path : i \in 1..(mFDCount - 1)}

\* the records on the chain that starts at p (at most `fuel` links are followed)
RECURSIVE Chain(_, _)
Chain(p, fuel) ==
    IF p = NULL \/ fuel = 0 \/ p \notin DOMAIN heap THEN {}
    ELSE {p} \cup Chain(heap[p].next, fuel - 1)

\* storage the program can still reach: every record not deleted, and the
\* deleted ones the opening list still leads to
Reachable ==
    {h \in DOMAIN heap : ~heap[h].freed}
        \cup Chain(mOpeningDevices, Cardinality(DOMAIN heap))

\* the first getEvent call, lines 310-334, and openPlatformInput up to the
\* scan, lines 511-518
PlatformOpen ==
    /\ pc = "idle"
    /\ ~mOpened
    /\ mOpened' = TRUE
    /\ mFDCount' = 1
    /\ mFDs' = <<NewFd>>
    /\ mDevices' = <<NULL>>
    /\ openFds' = openFds \cup {NewFd}
    /\ pc' = "scandir"
    /\ out' = NoEvent
    /\ UNCHANGED <<mHaveFirstKeyboard, mFirstKeyboardId, mDevicesById,
                   mOpeningDevices, mClosingDevices, mSwitches, mExcludedDevices,
                   heap, gen, closedIds, nOpens>>
    /\ UNCHANGED <<wakeLock, revents, announced, uaf, nRuns, mLock, q>>

\* scan_dir, lines 1022-1029: one directory entry
ScanDirEntry(path, fx, bound) ==
    /\ pc = "scandir"
    /\ nOpens < bound
    /\ path \notin OpenPaths
    /\ open_device(path, fx)
    /\ UNCHANGED <<wakeLock, pc, revents, out, announced, uaf, nRuns, mLock, q>>

\* scan_dir, lines 1030-1031: readdir() returned NULL
ScanDirDone ==
    /\ pc = "scandir"
    /\ pc' = "loop"
    /\ UNCHANGED <<hub, wakeLock, revents, out, announced, uaf, nRuns, mLock, q>>

\* a later getEvent call, lines 310-316.  Storage of deleted records that
\* nothing leads to any more goes back to the allocator.
Call ==
    /\ pc = "idle"
    /\ mOpened
    /\ out' = NoEvent
    /\ heap' = [h \in Reachable |-> heap[h]]
    /\ pc' = "loop"
    /\ UNCHANGED <<mOpened, mHaveFirstKeyboard, mFirstKeyboardId, mDevicesById,
                   mOpeningDevices, mClosingDevices, mDevices, mFDs, mFDCount,
                   mSwitches, mExcludedDevices, openFds, gen, closedIds, nOpens>>
    /\ UNCHANGED <<wakeLock, revents, announced, uaf, nRuns, mLock, q>>

\* lines 342-352
ReportClosed ==
    /\ pc = "loop"
    /\ mClosingDevices # NULL
    /\ LET device == mClosingDevices
           outId  == Reported(heap[device].id)
       IN  /\ mClosingDevices' = heap[device].next
           /\ out' = [NoEvent EXCEPT !.deviceId = outId, !.type = DEVICE_REMOVED,
                                     !.obj = device]
           /\ heap' = [heap EXCEPT ![device].freed = TRUE,
                                   ![device].removed = @ + 1]
           /\ announced' = announced \ {outId}
    /\ pc' = "idle"
    /\ UNCHANGED <<mOpened, mHaveFirstKeyboard, mFirstKeyboardId, mDevicesById,
                   mOpeningDevices, mDevices, mFDs, mFDCount, mSwitches,
                   mExcludedDevices, openFds, gen, closedIds, nOpens>>
    /\ UNCHANGED <<wakeLock, revents, uaf, nRuns, mLock, q>>

\* what a read of the id field of a deleted record can yield besides the
\* value it held: the allocator's own data
GarbageId == 0 - 1

\* lines 353-362
ReportOpened ==
    /\ pc = "loop"
    /\ mClosingDevices = NULL
    /\ mOpeningDevices # NULL
    /\ LET device == mOpeningDevices
           emit(outId) ==
               /\ mOpeningDevices' = heap[device].next
               /\ out' = [NoEvent EXCEPT !.deviceId = outId, !.type = DEVICE_ADDED,
                                         !.obj = device]
               /\ heap' = [heap EXCEPT ![device].added = @ + 1]
               /\ announced' = announced \cup {outId}
               /\ pc' = "idle"
       IN  IF ~heap[device].freed THEN
               /\ emit(Reported(heap[device].id))
               /\ uaf' = uaf
           ELSE
               \* the record was deleted at line 350: reading it is undefined
               /\ uaf' = TRUE
               /\ \/ emit(Reported(heap[device].id))
                  \/ emit(GarbageId)
                  \/ /\ pc' = "crashed"
                     /\ UNCHANGED <<mOpeningDevices, out, heap, announced>>
    /\ UNCHANGED <<mOpened, mHaveFirstKeyboard, mFirstKeyboardId, mDevicesById,
                   mClosingDevices, mDevices, mFDs, mFDCount, mSwitches,
                   mExcludedDevices, openFds, gen, closedIds, nOpens>>
    /\ UNCHANGED <<wakeLock, revents, nRuns, mLock, q>>

\* a pump that goes into poll() with the wake lock held
EnterPollHoldingLock ==
    /\ pc = "loop"
    /\ mClosingDevices = NULL
    /\ mOpeningDevices = NULL
    /\ pc' = "poll"
    /\ UNCHANGED <<hub, wakeLock, revents, out, announced, uaf, nRuns, mLock, q>>

\* lines 364-366: nothing pending, release the wake lock and block
EnterPoll ==
    /\ pc = "loop"
    /\ mClosingDevices = NULL
    /\ mOpeningDevices = NULL
    /\ wakeLock' = FALSE
    /\ pc' = "poll"
    /\ UNCHANGED <<hub, revents, out, announced, uaf, nRuns, mLock, q>>

\* a pump that reads the watcher first when it is readable
PollReturnWatcherFirst(ready) ==
    /\ pc = "poll"
    /\ wakeLock' = TRUE
    /\ revents' = ready
    /\ pc' = IF ready = {} THEN "loop" ELSE IF 0 \in ready THEN "notify" ELSE "scan"
    /\ UNCHANGED <<hub, out, announced, uaf, nRuns, mLock, q>>

\* lines 366-376: poll() returns, with the indices it found readable
PollReturn(ready) ==
    /\ pc = "poll"
    /\ wakeLock' = TRUE
    /\ revents' = ready
    /\ pc' = IF ready = {} THEN "loop" ELSE "scan"
    /\ UNCHANGED <<hub, out, announced, uaf, nRuns, mLock, q>>

\* a translation that hands the scancode on when the layout map misses
TranslateKeepCode(device, iev) ==
    LET layout == heap[device].layoutMap
        mapped == iev.type = EV_KEY /\ LayoutHas(layout, iev.code)
    IN  [deviceId |-> Reported(heap[device].id),
         type     |-> iev.type,
         scancode |-> iev.code,
         keycode  |-> IF mapped THEN layout[iev.code].keycode ELSE iev.code,
         flags    |-> IF mapped THEN layout[iev.code].flags ELSE 0,
         value    |-> iev.value,
         obj      |-> device]

\* lines 413-439: the out-parameters for an event read from the record
Translate(device, iev) ==
    LET layout == heap[device].layoutMap
        mapped == iev.type = EV_KEY /\ LayoutHas(layout, iev.code)
    IN  [deviceId |-> Reported(heap[device].id),
         type     |-> iev.type,
         scancode |-> iev.code,
         keycode  |-> IF iev.type = EV_KEY
                      THEN (IF mapped THEN layout[iev.code].keycode ELSE 0)
                      ELSE iev.code,
         flags    |-> IF mapped THEN layout[iev.code].flags ELSE 0,
         value    |-> iev.value,
         obj      |-> device]

\* lines 381-439: the read at index i succeeds (those before it failed or
\* came short, lines 440-447) and its event is returned
ScanEvent(i, iev) ==
    /\ pc = "scan"
    /\ i \in revents
    /\ i >= 1
    /\ out' = Translate(At(mDevices, i), iev)
    /\ revents' = {}
    /\ pc' = "idle"
    /\ UNCHANGED <<hub, wakeLock, announced, uaf, nRuns, mLock, q>>

\* a pump that gives up a descriptor whose read fails
ScanReadClosing(i) ==
    /\ pc = "scan"
    /\ i \in revents
    /\ i >= 1
    /\ i < mFDCount
    /\ close_device(heap[At(mDevices, i)].path)
    /\ revents' = {}
    /\ UNCHANGED <<wakeLock, pc, out, announced, uaf, nRuns, mLock, q>>

\* lines 391 and 440-447: the read at index i fails or comes short; it is
\* logged and the scan goes on to the next index
ScanReadFails(i) ==
    /\ pc = "scan"
    /\ i \in revents
    /\ i >= 1
    /\ revents' = revents \ {i}
    /\ UNCHANGED <<hub, wakeLock, pc, out, announced, uaf, nRuns, mLock, q>>

\* lines 381-456: no read succeeded; on to the watcher, if it is readable
ScanNone ==
    /\ pc = "scan"
    /\ pc' = IF 0 \in revents THEN "notify" ELSE "loop"
    /\ revents' = {}
    /\ UNCHANGED <<hub, wakeLock, out, announced, uaf, nRuns, mLock, q>>

\* read_notify, lines 970-1004: one inotify record with IN_CREATE
NotifyCreate(path, fx, bound) ==
    /\ pc = "notify"
    /\ nOpens < bound
    /\ path \notin OpenPaths
    /\ open_device(path, fx)
    /\ UNCHANGED <<wakeLock, pc, revents, out, announced, uaf, nRuns, mLock, q>>

\* read_notify, lines 970-1004: one inotify record without IN_CREATE
NotifyDelete(path) ==
    /\ pc = "notify"
    /\ close_device(path)
    /\ UNCHANGED <<wakeLock, pc, revents, out, announced, uaf, nRuns, mLock, q>>

\* read_notify, lines 957-963 and 1006: no record left in the buffer
NotifyDone ==
    /\ pc = "notify"
    /\ pc' = "loop"
    /\ UNCHANGED <<hub, wakeLock, revents, out, announced, uaf, nRuns, mLock, q>>

\* RunLength iterations of the while loop in each of which only the watcher
\* is readable and read_notify opens one candidate that open_device drops
DroppedRun(path, fx) ==
    /\ pc = "loop"
    /\ mClosingDevices = NULL
    /\ mOpeningDevices = NULL
    /\ nRuns < MaxRuns
    /\ nRuns' = nRuns + 1
    /\ OpenDeviceN(path, fx, RunLength)
    /\ UNCHANGED <<wakeLock, pc, revents, out, announced, uaf, mLock, q>>

\* a step of the pump thread, with at most `bound` open_device calls so far
\* and the candidates drawn from `fixtures`
Pump(bound, fixtures) ==
    \/ PlatformOpen
    \/ \E path \in Paths, fx \in fixtures : ScanDirEntry(path, fx, bound)
    \/ ScanDirDone
    \/ Call
    \/ ReportClosed
    \/ ReportOpened
    \/ EnterPoll
    \/ \E ready \in SUBSET (0..(mFDCount - 1)) : PollReturn(ready)
    \/ \E i \in 1..(mFDCount - 1), iev \in RawEvents : ScanEvent(i, iev)
    \/ \E i \in 1..(mFDCount - 1) : ScanReadFails(i)
    \/ ScanNone
    \/ \E path \in Paths, fx \in fixtures : NotifyCreate(path, fx, bound)
    \/ \E path \in Paths : NotifyDelete(path)
    \/ NotifyDone

\* addExcludedDevice, lines 287-291.  It takes no lock: its callers call it
\* while no getEvent is running.
addExcludedDevice(deviceName) ==
    /\ pc = "idle"
    /\ Len(mExcludedDevices) < MaxExcluded
    /\ mExcludedDevices' = Append(mExcludedDevices, deviceName)
    /\ UNCHANGED <<mOpened, mHaveFirstKeyboard, mFirstKeyboardId, mDevicesById,
                   mOpeningDevices, mClosingDevices, mDevices, mFDs, mFDCount,
                   mSwitches, heap, openFds, gen, closedIds, nOpens>>
    /\ UNCHANGED <<wakeLock, pc, revents, out, announced, uaf, nRuns, mLock, q>>

\* the same, with the runs of dropped candidates
Step(bound) ==
    \/ Pump(bound, Fixtures)
    \/ \E fx \in Fixtures : DroppedRun("event0", fx)

(***************************************************************************)
(* A thread that calls the pull-mode queries while the pump runs.  A call  *)
(* that takes mLock is two steps, the acquisition and the rest; a call     *)
(* that does not is one step per read of the registry.  `unlocked` records *)
(* that the thread has read the registry without holding mLock, `uaf`     *)
(* that it has read a record the pump had deleted.                         *)
(***************************************************************************)
\* what a caller may pass for deviceId
QueryIds == {0} \cup {heap[h].id : h \in DOMAIN heap} \cup {c.id : c \in closedIds}

QueryCall == q.pc = "idle" /\ q.calls < MaxQueries

QueryUnchanged == UNCHANGED <<hub, wakeLock, pc, revents, out, announced, uaf, nRuns>>

\* getDeviceName, line 131: AutoMutex _l(mLock)
getDeviceNameLock(deviceId) ==
    /\ QueryCall
    /\ mLock = "free"
    /\ mLock' = "query"
    /\ q' = [q EXCEPT !.pc = "name", !.arg = deviceId, !.calls = @ + 1]
    /\ QueryUnchanged

\* getDeviceName, lines 132-134, and the release of mLock on return
getDeviceNameReturn ==
    /\ q.pc = "name"
    /\ q' = [q EXCEPT !.pc = "idle", !.result = getDeviceName(q.arg)]
    /\ mLock' = "free"
    /\ QueryUnchanged

\* hasKeys, lines 552-557, for one key code: no lock is taken
hasKeysCall(keyCode) ==
    /\ QueryCall
    /\ q' = [q EXCEPT !.pc = "hasKeys", !.arg = keyCode, !.n = 0, !.result = 0,
                      !.calls = @ + 1]
    /\ UNCHANGED mLock
    /\ QueryUnchanged

\* hasKeys, lines 557-558: the loop test and the test of mDevices[n]
hasKeysRead ==
    /\ q.pc = "hasKeys"
    /\ q' = IF q.n < mFDCount
            THEN IF At(mDevices, q.n) # NULL
                 THEN [q EXCEPT !.pc = "deref", !.dev = At(mDevices, q.n),
                                !.unlocked = (mLock # "query")]
                 ELSE [q EXCEPT !.n = @ + 1, !.unlocked = (mLock # "query")]
            ELSE [q EXCEPT !.pc = "idle", !.unlocked = (mLock # "query")]
    /\ UNCHANGED mLock
    /\ QueryUnchanged

\* the pointers line 559 may read through: the one line 558 tested, or what
\* mDevices[n] holds by now (the build decides whether it is read again)
DerefPointers ==
    {q.dev} \cup (IF q.n < Len(mDevices) THEN {At(mDevices, q.n)} ELSE {})

\* hasKeys, lines 559-569: the record's layout map and key bitmask are read
hasKeysDeref(device) ==
    /\ q.pc = "deref"
    /\ device \in DerefPointers
    /\ q' = IF device = NULL \/ device \notin DOMAIN heap
            THEN [q EXCEPT !.pc = "idle", !.fault = TRUE]
            ELSE IF heap[device].freed
            THEN [q EXCEPT !.pc = "idle", !.fault = TRUE]
            ELSE IF hasKeycode(heap[device].hasKeyBitmask, heap[device].keyBitmask,
                               heap[device].layoutMap, q.arg)
            THEN [q EXCEPT !.pc = "idle", !.result = 1]
            ELSE [q EXCEPT !.pc = "hasKeys", !.n = @ + 1]
    /\ UNCHANGED mLock
    /\ QueryUnchanged

\* getSwitchState(int sw), lines 169-171: the cell is read, no lock is taken
getSwitchStateRead(sw) ==
    /\ QueryCall
    /\ q' = IF sw >= 0 /\ sw <= SW_MAX /\ mSwitches[sw] # 0
            THEN [q EXCEPT !.pc = "sw", !.arg = sw, !.dev = mSwitches[sw],
                           !.unlocked = (mLock # "query"), !.calls = @ + 1]
            ELSE [q EXCEPT !.arg = sw, !.result = 0 - 1,
                           !.unlocked = (mLock # "query"), !.calls = @ + 1]
    /\ UNCHANGED mLock
    /\ QueryUnchanged

\* getSwitchState(int32_t, int), line 182, called from line 172
getSwitchStateLock ==
    /\ q.pc = "sw"
    /\ mLock = "free"
    /\ mLock' = "query"
    /\ q' = [q EXCEPT !.pc = "swLocked"]
    /\ QueryUnchanged

\* lines 183-196, and the release of mLock on return
getSwitchStateReturn(io, bit) ==
    /\ q.pc = "swLocked"
    /\ q' = [q EXCEPT !.pc = "idle", !.result = getSwitchState(q.dev, io, bit)]
    /\ mLock' = "free"
    /\ QueryUnchanged

\* a step of the query thread
Query ==
    \/ \E deviceId \in QueryIds : getDeviceNameLock(deviceId)
    \/ getDeviceNameReturn
    \/ hasKeysCall(kKeyCodeQ)
    \/ hasKeysRead
    \/ \E device \in DerefPointers : hasKeysDeref(device)
    \/ getSwitchStateRead(SW_HEADPHONE_INSERT)
    \/ getSwitchStateLock
    \/ \E io \in IoctlResults, bit \in BOOLEAN : getSwitchStateReturn(io, bit)

Next == Step(MaxOpens)

Spec == Init /\ [][Next]_vars

NextDeep == Step(MaxDeepOpens)

\* the same program, followed through more open_device calls
SpecDeep == Init /\ [][NextDeep]_vars

\* the names a caller excludes
ExcludedNames == {fx.name : fx \in ExclFixtures}

NextExcl ==
    \/ Pump(MaxExclOpens, ExclFixtures)
    \/ \E deviceName \in ExcludedNames : addExcludedDevice(deviceName)

\* the same program with a caller of addExcludedDevice
SpecExcl == Init /\ [][NextExcl]_vars

\* lines 381-439 when every read succeeds: the event of the lowest index
\* poll() reported is returned
ScanFirst(iev) ==
    /\ revents \ {0} # {}
    /\ ScanEvent(Min(revents \ {0}), iev)

\* lines 381-456 when no user descriptor is readable
ScanWatcherOnly ==
    /\ revents \ {0} = {}
    /\ ScanNone

\* a step of the pump thread when no read of a readable descriptor fails
NextLive ==
    \/ PlatformOpen
    \/ \E path \in Paths, fx \in LiveFixtures : ScanDirEntry(path, fx, MaxLiveOpens)
    \/ ScanDirDone
    \/ Call
    \/ ReportClosed
    \/ ReportOpened
    \/ EnterPoll
    \/ \E ready \in SUBSET (0..(mFDCount - 1)) : PollReturn(ready)
    \/ \E iev \in RawEvents : ScanFirst(iev)
    \/ ScanWatcherOnly
    \/ \E path \in Paths, fx \in LiveFixtures : NotifyCreate(path, fx, MaxLiveOpens)
    \/ \E path \in Paths : NotifyDelete(path)
    \/ NotifyDone

\* the caller calls getEvent again and again, and the pump thread runs
SpecLive == Init /\ [][NextLive]_vars /\ WF_vars(NextLive)

NextFail == Pump(MaxFailOpens, FailFixtures)

\* the same program among nodes that open_device turns away
SpecFail == Init /\ [][NextFail]_vars

NextRace == Pump(MaxRaceOpens, RaceFixtures) \/ Query

\* the same program with a thread that calls the queries
SpecRace == Init /\ [][NextRace]_vars

NextSw == Pump(MaxSwOpens, SwFixtures)

\* the same program among devices that report switches
SpecSw == Init /\ [][NextSw]_vars

(***************************************************************************)
(* What the properties below speak about.                                  *)
(***************************************************************************)
\* the slots of the identity table
Slots == 0..(mNumDevicesById - 1)

\* the records the identity table holds: the registered devices
Registered == {At(mDevicesById, s).device : s \in Slots} \ {NULL}

\* the slot an id names
SlotOf(id) == BitAnd(id, ID_MASK)

\* the sequence counter an id carries
SeqOf(id) == id \div Pow2(SEQ_SHIFT)

\* the period of the sequence counter: it takes the values 1..0x7FFF
SeqPeriod == SEQ_MASK \div Pow2(SEQ_SHIFT)

\* the ids of closed records whose slot holds a record again
Reassigned == {c \in closedIds : SlotOf(c.id) \in Slots
                                 /\ At(mDevicesById, SlotOf(c.id)).device # NULL}

\* getEvent has returned, and what it returned is an event read from a device
RawReturned == pc = "idle" /\ out.obj # NULL
               /\ out.type \notin {DEVICE_ADDED, DEVICE_REMOVED}

\* closed records whose DEVICE_REMOVED the pump has not returned yet
PendingRemoval == {h \in DOMAIN heap : heap[h].closed /\ ~heap[h].freed}

(***************************************************************************)
(* C1.  DEVICE_ADDED for an id comes before any raw event bearing that id, *)
(* and DEVICE_REMOVED for it after the last one, ids being those the       *)
(* caller sees: every raw event getEvent returns bears an id for which     *)
(* DEVICE_ADDED has been returned and no DEVICE_REMOVED since.             *)
(***************************************************************************)
C1_AddedBeforeRawBeforeRemoved == RawReturned => out.deviceId \in announced

(***************************************************************************)
(* C2.  Once a slot has been released and assigned again, the old id gets  *)
(* the not-found result from every accessor, whatever the ioctl would      *)
(* answer and whether or not a first keyboard is designated.               *)
(***************************************************************************)
C2_StaleIdNotFound ==
    \A c \in Reassigned :
        /\ getDeviceName(c.id) = ""
        /\ getDeviceClasses(c.id) = {}
        /\ \A io \in IoctlResults :
              /\ getAbsoluteInfo(c.id, io) = 0 - 1
              /\ \A bit \in BOOLEAN :
                    /\ getSwitchState(c.id, io, bit) = 0 - 1
                    /\ getScancodeState(c.id, io, bit) = 0 - 1
              /\ \A code \in {kKeyCodeQ, kKeyCodeDpadUp}, down \in SUBSET {16, 30} :
                    getKeycodeState(c.id, code, io, down) = 0 - 1
        /\ \A sc \in {16, 30, 99} :
              scancodeToKeycode(c.id, sc).status = NAME_NOT_FOUND

(***************************************************************************)
(* C3, as the specification states it.  getDevice of an assigned id yields *)
(* its record until the device is closed and NULL ever after, however      *)
(* often the slot is assigned again.                                       *)
(***************************************************************************)
C3_LookupNeverAfterClose ==
    /\ \A h \in Registered : getDevice(heap[h].id) = h
    /\ \A c \in closedIds : getDevice(c.id) = NULL

(***************************************************************************)
(* C3, amended.  getDevice of an assigned id yields its record until the   *)
(* device is closed, and NULL afterwards for as long as the slot's         *)
(* sequence counter has advanced fewer than 0x7FFF times since the id was  *)
(* assigned.                                                               *)
(***************************************************************************)
C3_LookupWithinPeriod ==
    /\ \A h \in Registered : getDevice(heap[h].id) = h
    /\ \A c \in closedIds :
          At(gen, SlotOf(c.id)) - c.genAt < SeqPeriod => getDevice(c.id) = NULL

\* a closed id whose slot holds another record, and the lookup refuses it
C3_Witness ==
    \E c \in Reassigned :
        /\ At(gen, SlotOf(c.id)) - c.genAt < SeqPeriod
        /\ getDevice(c.id) = NULL
        /\ \E h \in Registered : SlotOf(heap[h].id) = SlotOf(c.id)
                                 /\ getDevice(heap[h].id) = h

(***************************************************************************)
(* C4.  A pull-mode query for a registered device hands ioctl the          *)
(* descriptor of that device: the index it computes lies in the poll set   *)
(* and is the index at which the device sits.                              *)
(***************************************************************************)
C4_QueryOwnDescriptor ==
    \A h \in Registered :
        /\ QueryIndex(h) >= 1
        /\ QueryIndex(h) < mFDCount
        /\ At(mDevices, QueryIndex(h)) = h
        /\ At(mFDs, QueryIndex(h)) = heap[h].fd

(***************************************************************************)
(* C5.  Every record goes discovered, reported-added, live,                *)
(* reported-removed, destroyed: DEVICE_REMOVED is returned only for a      *)
(* record whose DEVICE_ADDED has been returned, no record gets more than   *)
(* one of either, and the pump never reads a record it has deleted.        *)
(***************************************************************************)
C5_Lifecycle ==
    /\ ~uaf
    /\ \A h \in DOMAIN heap :
          /\ heap[h].removed <= heap[h].added
          /\ heap[h].added <= 1
          /\ heap[h].removed <= 1

(***************************************************************************)
(* C6.  getEvent neither blocks in poll nor returns a raw event while a    *)
(* pending list is non-empty, and an iteration of its loop that starts     *)
(* with a pending list non-empty returns the synthetic event of exactly    *)
(* one entry, which it takes off its list, the closing list first.         *)
(***************************************************************************)
C6_PendingAtLoop == pc = "loop" /\ (mClosingDevices # NULL \/ mOpeningDevices # NULL)

C6_DrainsOne ==
    /\ pc' = "idle"
    /\ IF mClosingDevices # NULL
       THEN /\ out'.type = DEVICE_REMOVED
            /\ out'.obj = mClosingDevices
            /\ mClosingDevices' = heap[mClosingDevices].next
            /\ mOpeningDevices' = mOpeningDevices
       ELSE /\ out'.type = DEVICE_ADDED
            /\ out'.obj = mOpeningDevices
            /\ mOpeningDevices' = heap[mOpeningDevices].next
            /\ mClosingDevices' = mClosingDevices

C6_DrainBeforePoll ==
    /\ [](pc \in {"poll", "scan"} \/ RawReturned
             => mClosingDevices = NULL /\ mOpeningDevices = NULL)
    /\ [][C6_PendingAtLoop => C6_DrainsOne]_vars

(***************************************************************************)
(* C7.  When a slot is assigned again, the DEVICE_REMOVED of the device    *)
(* that held it comes before the DEVICE_ADDED of the device that holds it  *)
(* now, and that DEVICE_ADDED before every raw event of the new device.    *)
(***************************************************************************)
C7_ReincarnationOrder ==
    /\ \A e \in Registered, d \in PendingRemoval :
          SlotOf(heap[d].id) = SlotOf(heap[e].id) => heap[e].added = 0
    /\ RawReturned /\ (\E c \in closedIds : SlotOf(c.id) = SlotOf(heap[out.obj].id))
          => heap[out.obj].added >= 1

(***************************************************************************)
(* C8.  After platform open the poll set and the device array have one     *)
(* length, the number of open devices plus one; index 0 is the watcher,    *)
(* with no device; the descriptor at each index from 1 on is that of the   *)
(* record at the same index; each open device sits at exactly one index.   *)
(***************************************************************************)
C8_PollSetMatchesDevices ==
    mOpened =>
        /\ Len(mFDs) = Len(mDevices)
        /\ mFDCount <= Len(mFDs)
        /\ mFDCount = Cardinality(Registered) + 1
        /\ At(mDevices, 0) = NULL
        /\ At(mFDs, 0) \in openFds
        /\ \A i \in 1..(mFDCount - 1) :
              /\ At(mDevices, i) \in Registered
              /\ At(mFDs, i) = heap[At(mDevices, i)].fd
              /\ At(mFDs, i) \in openFds
              /\ At(mFDs, i) # At(mFDs, 0)
        /\ \A h \in Registered :
              Cardinality({i \in 1..(mFDCount - 1) : At(mDevices, i) = h}) = 1

\* a device was closed and one that is still open has moved down: it sits
\* below the index its slot names
C8_Witness ==
    /\ mFDCount >= 2
    /\ closedIds # {}
    /\ \E h \in Registered : QueryIndex(h) # Min({i \in 1..(mFDCount - 1) : At(mDevices, i) = h})

(***************************************************************************)
(* C9.  A slot's counter goes from s to (s + 1) & 0x7FFF, with 1 in place  *)
(* of 0: after g advances it is ((g - 1) mod 0x7FFF) + 1, so 0x7FFF is     *)
(* followed by 1 and never by 0.  The id of every registered device is     *)
(* non-zero, has its high bit clear, and names its slot in its low 16      *)
(* bits.                                                                   *)
(***************************************************************************)
\* the step as the property writes it, on the counter's value
C9_Step(s) == LET t == (s + 1) % 32768 IN IF t = 0 THEN 1 ELSE t

\* NextSeq is that step on the stored form, for every value of the counter
C9_StepAgrees ==
    \A s \in 0..32767 : NextSeq(s * Pow2(SEQ_SHIFT)) = C9_Step(s) * Pow2(SEQ_SHIFT)

C9_SeqWraps ==
    /\ C9_StepAgrees
    /\ \A s \in Slots :
          LET seq == At(mDevicesById, s).seq
              g   == At(gen, s)
          IN  /\ seq % Pow2(SEQ_SHIFT) = 0
              /\ SeqOf(seq) = IF g = 0 THEN 0 ELSE ((g - 1) % 32767) + 1
              /\ At(mDevicesById, s).device # NULL => SeqOf(seq) # 0
    /\ \A s \in Slots :
          LET h == At(mDevicesById, s).device
          IN  h # NULL =>
                 /\ heap[h].id # 0
                 /\ heap[h].id > 0
                 /\ heap[h].id % Pow2(SEQ_SHIFT) = s
                 /\ heap[h].id \div Pow2(SEQ_SHIFT) \in 1..32767
                 /\ heap[h].id \div Pow2(SEQ_SHIFT) = SeqOf(At(mDevicesById, s).seq)

\* a registered device whose slot's counter has gone from 0x7FFF to 1
C9_Witness ==
    \E s \in Slots :
        /\ At(mDevicesById, s).device # NULL
        /\ At(gen, s) = 32768
        /\ SeqOf(heap[At(mDevicesById, s).device].id) = 1

(***************************************************************************)
(* C10.  mFirstKeyboardId is 0 or the id of a registered device whose      *)
(* classes include KEYBOARD.                                               *)
(***************************************************************************)
C10_FirstKeyboardRegistered ==
    \/ mFirstKeyboardId = 0
    \/ \E h \in Registered : /\ heap[h].id = mFirstKeyboardId
                             /\ "KEYBOARD" \in heap[h].classes

\* the first keyboard was closed and the designation has passed to a
\* keyboard that is registered now
C10_Witness ==
    /\ mFirstKeyboardId # 0
    /\ \E c \in closedIds : c.first /\ c.id # mFirstKeyboardId
    /\ \E h \in Registered : heap[h].id = mFirstKeyboardId

(***************************************************************************)
(* C11.  The designation of the first keyboard is sticky: once the device  *)
(* that held it has been closed, no other keyboard, open already or opened *)
(* later, becomes the first keyboard.                                      *)
(***************************************************************************)
C11_DesignationSticky == (\E c \in closedIds : c.first) => mFirstKeyboardId = 0

(***************************************************************************)
(* C12.  A device carries the HEADSET class only if the                    *)
(* SW_HEADPHONE_INSERT cell of the switch table holds its own id: of the   *)
(* devices that report the switch only the first discovered one gets the   *)
(* claim and the class, and a device that does not report it gets neither. *)
(***************************************************************************)
C12_HeadsetOnlyOwner ==
    \A h \in Registered :
        "HEADSET" \in heap[h].classes => mSwitches[SW_HEADPHONE_INSERT] = heap[h].id

(***************************************************************************)
(* C13.  Once a device has been closed no cell of the switch table         *)
(* (0..SW_MAX) holds its id: every switch it had claimed is free again, so *)
(* that its state is answered with the error until another device claims   *)
(* it.                                                                     *)
(***************************************************************************)
C13_SwitchCellsReleased ==
    \A c \in closedIds : \A sw \in 0..SW_MAX : mSwitches[sw] # c.id

(***************************************************************************)
(* C14.  A candidate whose only key bits lie at or above BTN_MISC and that *)
(* has no relative axes, absolute axes or switches is dropped whatever the *)
(* hub holds: it is never registered.                                      *)
(***************************************************************************)
C14_ButtonsDropped == \A h \in DOMAIN heap : heap[h].name # Buttons.name

\* the candidate of a name
FixtureNamed(name) == CHOOSE fx \in Fixtures \cup SwFixtures \cup ExclFixtures : fx.name = name

\* the classes open_device gives a candidate in a hub that holds nothing
ClassesAlone(fx) ==
    LET base == BaseClasses(fx, fx.swOk /\ SW_HEADPHONE_INSERT \in fx.sw)
    IN  IF "KEYBOARD" \in base THEN base \cup KeyboardClasses(fx) ELSE base

(***************************************************************************)
(* C15.  The classes of a device are a function of its capabilities alone: *)
(* whatever was opened and closed before it, it gets the classes it would  *)
(* get as the first device of an empty hub.                                *)
(***************************************************************************)
C15_ClassesByCapabilities ==
    \A h \in DOMAIN heap : heap[h].classes = ClassesAlone(FixtureNamed(heap[h].name))

(***************************************************************************)
(* C16.  A candidate whose name is on the excluded list when open_device   *)
(* is called is never registered, and adding a name that is already on the *)
(* list changes the outcome of the test for no name: adding it twice is    *)
(* adding it once.                                                         *)
(***************************************************************************)
C16_ExcludedRejected ==
    [][/\ \A h \in DOMAIN heap' \ DOMAIN heap :
              \A k \in 1..Len(mExcludedDevices) : mExcludedDevices[k] # heap'[h].name
       /\ \A k \in 1..Len(mExcludedDevices) : \A fx \in ExclFixtures :
              IsExcluded(Append(mExcludedDevices, mExcludedDevices[k]), fx.name)
                  = IsExcluded(mExcludedDevices, fx.name)]_vars

\* a name has been added twice, open_device has been called, and every call
\* was rejected: the identity table has never grown
C16_Witness ==
    /\ Len(mExcludedDevices) = 2
    /\ mExcludedDevices[1] = mExcludedDevices[2]
    /\ nOpens > 0
    /\ mNumDevicesById = 0

(***************************************************************************)
(* C17.  The wake lock is held from construction on in every state except  *)
(* while the pump is blocked in poll(): it is released on the way into     *)
(* poll(), taken again as poll() returns, and held whenever getEvent has   *)
(* returned to its caller.                                                 *)
(***************************************************************************)
C17_WakeLockAroundPoll == wakeLock <=> pc # "poll"

\* getEvent has gone through poll() and returned an event read from a device
C17_Witness == RawReturned /\ wakeLock

(***************************************************************************)
(* C19.  Every registered device of class KEYBOARD has its key bitmask     *)
(* cached and a layout map that holds what load() read from the layout     *)
(* file chosen: nothing, when neither the device's own file nor qwerty.kl  *)
(* can be loaded.                                                          *)
(***************************************************************************)
C19_KeyboardBitmaskAndLayout ==
    \A h \in Registered :
        "KEYBOARD" \in heap[h].classes =>
            /\ heap[h].hasKeyBitmask
            /\ heap[h].keyBitmask = FixtureNamed(heap[h].name).keys
            /\ heap[h].layoutMap = FixtureNamed(heap[h].name).layout

\* a registered keyboard for which no layout file could be loaded
C19_Witness ==
    \E h \in Registered :
        /\ "KEYBOARD" \in heap[h].classes
        /\ heap[h].hasKeyBitmask
        /\ DOMAIN heap[h].layoutMap = {}

\* C19 as stated: the layout map of every registered keyboard is non-empty
C19_KeyboardLayoutNonEmpty ==
    \A h \in Registered :
        "KEYBOARD" \in heap[h].classes =>
            heap[h].hasKeyBitmask /\ DOMAIN heap[h].layoutMap # {}

\* the slots of the identity table that hold no device
EmptySlots == {s \in Slots : At(mDevicesById, s).device = NULL}

\* closed records and the registered record that followed them in their slot,
\* opened by the next open_device call on that slot
Successors ==
    {<<c, h>> \in closedIds \X Registered :
        /\ SlotOf(heap[h].id) = SlotOf(c.id)
        /\ heap[h].genAt = c.genAt + 1}

(***************************************************************************)
(* C20.  open_device registers a device in the lowest slot that holds no   *)
(* device, and the identity table grows, by one entry, only when every     *)
(* slot holds one.  Hence the device opened next after the close of a      *)
(* device with id X has the slot of X and another sequence: its id Y is    *)
(* not X, getDeviceName(X) is empty and getDeviceName(Y) is its name (ids  *)
(* as the device records hold them).                                       *)
(***************************************************************************)
C20_LowestEmptySlot ==
    [][/\ \A h \in DOMAIN heap' \ DOMAIN heap :
              /\ EmptySlots # {} =>
                     /\ SlotOf(heap'[h].id) \in EmptySlots
                     /\ \A s \in EmptySlots : SlotOf(heap'[h].id) <= s
              /\ EmptySlots = {} => SlotOf(heap'[h].id) = mNumDevicesById
       /\ \/ mNumDevicesById' = mNumDevicesById
          \/ mNumDevicesById' = mNumDevicesById + 1 /\ EmptySlots = {}
       /\ (\A p \in Successors :
              /\ heap[p[2]].id # p[1].id
              /\ SeqOf(heap[p[2]].id) # SeqOf(p[1].id)
              /\ getDeviceName(p[1].id) = ""
              /\ getDeviceName(heap[p[2]].id) = heap[p[2]].name)']_vars

\* a device has been closed and the next one opened has its slot, in a table
\* that did not grow
C20_Witness == Successors # {} /\ mNumDevicesById = 1

(***************************************************************************)
(* C18.  A query reads the registry only while it holds mLock: the query   *)
(* thread never reads the identity table, the poll set, the device-pointer *)
(* array or the switch table without the lock, and so never reads through  *)
(* a pointer to a record the pump has closed and deleted meanwhile.        *)
(***************************************************************************)
C18_QueriesHoldLock == ~q.unlocked /\ ~q.fault

(***************************************************************************)
(* C21.  Within one iteration of the pump the watcher is read only after   *)
(* the scan over the user descriptors has ended without returning an       *)
(* event: from poll() returning to the end of the scan the poll set and    *)
(* the device-pointer array do not change, and an event the scan returns   *)
(* is from the device at an index poll() reported.                         *)
(***************************************************************************)
C21_WatcherAfterScan ==
    [][/\ pc \in {"poll", "scan"} => UNCHANGED <<mFDs, mDevices, mFDCount>>
       /\ (pc # "notify" /\ pc' = "notify") => (pc = "scan" /\ out' = out)
       /\ (pc = "scan" /\ pc' = "idle") =>
              \E i \in revents : /\ i >= 1
                                 /\ i < mFDCount
                                 /\ out'.obj = At(mDevices, i)]_vars

\* the watcher is being read, after a scan, with user descriptors in the poll
\* set, and has had a device closed
C21_Witness == pc = "notify" /\ mFDCount > 1 /\ mClosingDevices # NULL

(***************************************************************************)
(* C22.  An event getEvent returns from a device carries the type, code    *)
(* and value of an event the device gave.  For EV_KEY the keycode and the  *)
(* flags are the pair the device's layout map holds for the scancode, and  *)
(* both are 0 when it holds none; for every other type the keycode is the  *)
(* scancode and the flags are 0.                                           *)
(***************************************************************************)
C22_RawEventTranslated ==
    RawReturned =>
        LET layout == heap[out.obj].layoutMap IN
        /\ \E iev \in RawEvents : /\ out.type = iev.type
                                  /\ out.scancode = iev.code
                                  /\ out.value = iev.value
        /\ (out.type = EV_KEY /\ out.scancode \in DOMAIN layout) =>
               /\ out.keycode = layout[out.scancode].keycode
               /\ out.flags = layout[out.scancode].flags
        /\ (out.type = EV_KEY /\ out.scancode \notin DOMAIN layout) =>
               out.keycode = 0 /\ out.flags = 0
        /\ out.type # EV_KEY => out.keycode = out.scancode /\ out.flags = 0

\* a key event has been returned for a scancode the device's map does not hold
C22_Witness ==
    /\ RawReturned
    /\ out.type = EV_KEY
    /\ out.scancode \notin DOMAIN heap[out.obj].layoutMap
    /\ out.keycode = 0

(***************************************************************************)
(* C23.  A read of a device descriptor that fails or comes short returns   *)
(* no event for the descriptor and changes nothing in the registry: the    *)
(* descriptor stays in the poll set where it was, still open, its device   *)
(* stays registered, and neither pending list gets an entry.               *)
(***************************************************************************)
C23_FailedReadLeavesRegistry ==
    [][(pc = "scan" /\ pc' # "idle") =>
           /\ out' = out
           /\ UNCHANGED <<mFDs, mDevices, mFDCount, mDevicesById, mOpeningDevices,
                          mClosingDevices, openFds, heap>>]_vars

\* the read of every descriptor poll() reported has failed, and the devices
\* are still in the poll set
C23_Witness == pc = "scan" /\ revents = {} /\ mFDCount > 1

\* the descriptors the poll set holds: the watcher's and the devices'
PollSetFds == {At(mFDs, i) : i \in 0..(mFDCount - 1)}

(***************************************************************************)
(* C24.  open_device closes the descriptor of every candidate it turns     *)
(* away after open() succeeded: the descriptors the hub holds open are     *)
(* those of the poll set, the watcher's and the registered devices'.       *)
(***************************************************************************)
C24_NoDescriptorLeak == openFds = PollSetFds

\* the scancodes asked about: one the layout files map, one only the keypad's
\* file maps, one no file maps
C25_Scancodes == {16, 30, 31}

\* what scancodeToKeycode is to answer for a registered record: its own
\* mapping, else that of the first keyboard, if one is designated, open and
\* another device, else NAME_NOT_FOUND with zeroes
C25_Expected(h, scancode) ==
    LET own   == heap[h].layoutMap
        first == IF mFirstKeyboardId = 0 THEN NULL ELSE getDevice(mFirstKeyboardId)
    IN  IF scancode \in DOMAIN own
        THEN [status |-> NO_ERROR, keycode |-> own[scancode].keycode,
              flags |-> own[scancode].flags]
        ELSE IF first # NULL /\ first # h
                /\ scancode \in DOMAIN heap[first].layoutMap
        THEN [status |-> NO_ERROR,
              keycode |-> heap[first].layoutMap[scancode].keycode,
              flags |-> heap[first].layoutMap[scancode].flags]
        ELSE [status |-> NAME_NOT_FOUND, keycode |-> 0, flags |-> 0]

(***************************************************************************)
(* C25.  For a registered device scancodeToKeycode answers with the        *)
(* mapping of the device's own layout map; when that map misses and the    *)
(* first keyboard id designates another open keyboard, by whichever rule   *)
(* it was designated, with the first keyboard's mapping; and otherwise     *)
(* with NAME_NOT_FOUND, keycode 0 and flags 0.                             *)
(***************************************************************************)
C25_RetryOnFirstKeyboard ==
    \A h \in Registered : \A scancode \in C25_Scancodes :
        scancodeToKeycode(heap[h].id, scancode) = C25_Expected(h, scancode)

(***************************************************************************)
(* C26.  The id getEvent reports in the DEVICE_REMOVED of a device is the  *)
(* id it reported in the device's DEVICE_ADDED, 0 for the first keyboard   *)
(* and the composite id otherwise: when DEVICE_REMOVED is returned for a   *)
(* record whose DEVICE_ADDED has been returned, its id is one for which    *)
(* DEVICE_ADDED was returned and no DEVICE_REMOVED since.                  *)
(***************************************************************************)
C26_RemovedAsAdded ==
    [][(/\ pc = "loop"
        /\ mClosingDevices # NULL
        /\ heap[mClosingDevices].added >= 1
        /\ pc' = "idle"
        /\ out'.type = DEVICE_REMOVED) => out'.deviceId \in announced]_vars

(***************************************************************************)
(* C27.  While the device designated as first keyboard stays open the      *)
(* first keyboard id does not change: no open_device moves the designation *)
(* to another device.                                                      *)
(***************************************************************************)
C27_FirstKeyboardFixed ==
    [][(/\ mFirstKeyboardId # 0
        /\ getDevice(mFirstKeyboardId) # NULL
        /\ mDevicesById'[SlotOf(mFirstKeyboardId) + 1].device = getDevice(mFirstKeyboardId))
           => mFirstKeyboardId' = mFirstKeyboardId]_vars

(***************************************************************************)
(* C28.  Every non-zero cell of the switch table holds the id of a         *)
(* registered device that reports the switch: no cell names a device that  *)
(* open_device dropped or that has been closed.                            *)
(***************************************************************************)
C28_SwitchCellsRegistered ==
    \A sw \in 0..SW_MAX :
        mSwitches[sw] # 0 =>
            \E h \in Registered : /\ heap[h].id = mSwitches[sw]
                                  /\ sw \in FixtureNamed(heap[h].name).sw

(***************************************************************************)
(* C29.  An open_device call that turns its candidate away leaves the      *)
(* registry as it was: the identity table with every slot's device and     *)
(* sequence counter, the switch table, the first keyboard id, the poll     *)
(* set, the device-pointer array and both pending lists.                   *)
(***************************************************************************)
C29_RejectedOpenChangesNothing ==
    [][(nOpens' = nOpens + 1 /\ DOMAIN heap' = DOMAIN heap) =>
           UNCHANGED <<mDevicesById, mSwitches, mFirstKeyboardId, mFDCount,
                       mOpeningDevices, mClosingDevices>>]_vars

(***************************************************************************)
(* C30.  No descriptor of the poll set is starved.  If the device at poll  *)
(* index 2 is readable at every poll, one of its events is eventually      *)
(* returned; if the watcher is readable at every poll, it is eventually    *)
(* read; whatever else is readable.                                        *)
(***************************************************************************)
C30_NoStarvation ==
    /\ ([]<>(pc = "scan") /\ [](pc = "scan" => 2 \in revents))
           => <>(RawReturned /\ mFDCount > 2 /\ out.obj = At(mDevices, 2))
    /\ ([]<>(pc = "scan") /\ [](pc = "scan" => 0 \in revents))
           => <>(pc = "notify")

=============================================================================
